---- MODULE Spec2Model ----
(***************************************************************************)
(* Model of the block production control layer of autonity:                *)
(*   - miner/miner.go: the Miner supervisor loop (Miner.update) and the    *)
(*     public control surface that feeds it;                               *)
(*   - consensus/tendermint/core/propose.go: the proposer role             *)
(*     (SendProposal, HandleProposal, HandleNewCandidateBlockMsg).         *)
(* The worker, the event mux, the round message store and the consensus    *)
(* core helpers live outside these two files; they are modelled from their *)
(* documented contracts and marked as such where they are defined.         *)
(***************************************************************************)
EXTENDS Integers, Sequences, FiniteSets, TLC

VARIABLES
    \* ---- Miner.update locals and the objects it drives (miner.go)
    canStart,       \* local canStart of Miner.update
    shouldStart,    \* local shouldStart of Miner.update
    dlEventCh,      \* local dlEventCh: "chan" or "nil"
    subscribed,     \* the TypeMux subscription is live (not events.Closed())
    running,        \* worker.isRunning()
    workerClosed,   \* worker.close() has been called
    pc,             \* "loop": update is in its for/select, "done": it returned
    exitClosed,     \* close(miner.exitCh) was executed
    calls,          \* every worker.* call made so far, in order
    log,            \* every input offered to the miner so far, with its effect
    \* ---- consensus core state read and written by the proposer (propose.go)
    height,         \* c.Height()
    round,          \* c.Round()
    step,           \* c.step
    sentProposal,   \* c.sentProposal
    validRound,     \* c.validRound
    lockedRound,    \* c.lockedRound
    lockedValue,    \* hash of c.lockedValue, None when nil
    messages,       \* c.messages: round -> RoundMessages of the current height
    pendingCandidateBlocks, \* c.pendingCandidateBlocks: number -> block hash
    proposeTimeout, \* c.proposeTimeout: "running", "stopped" or "expired"
    futureProposalTimer,    \* c.futureProposalTimer: None, or the armed/stopped timer
    broadcasts,     \* proposals broadcast since the last round change
    nev,            \* consensus events handled so far
    out             \* what the last consensus event did

mvars == <<canStart, shouldStart, dlEventCh, subscribed, running, workerClosed,
           pc, exitClosed, calls, log>>

cvars == <<height, round, step, sentProposal, validRound, lockedRound, lockedValue,
           messages, pendingCandidateBlocks, proposeTimeout, futureProposalTimer,
           broadcasts, nev, out>>

vars == <<mvars, cvars>>

\* Longest input history explored.
MaxLog == 5

SyncEvents == {"SyncStart", "SyncFailed", "SyncDone"}
Lifecycle == {"start", "stop", "close"}

(***************************************************************************)
(* The supervisor's state as one record, so that a handler is a function   *)
(* from state to state.                                                    *)
(***************************************************************************)
MinerState ==
    [canStart |-> canStart, shouldStart |-> shouldStart, dlEventCh |-> dlEventCh,
     subscribed |-> subscribed, running |-> running, workerClosed |-> workerClosed,
     pc |-> pc, calls |-> calls]

\* ---- worker handle (contract of the worker: start/stop set the running
\* ---- flag, close is terminal, later calls fail)
WorkerStart(s) ==
    [s EXCEPT !.running = IF s.workerClosed THEN @ ELSE TRUE,
              !.calls = Append(@, "start")]

WorkerStop(s) ==
    [s EXCEPT !.running = FALSE, !.calls = Append(@, "stop")]

WorkerClose(s) ==
    [s EXCEPT !.running = FALSE, !.workerClosed = TRUE, !.calls = Append(@, "close")]

WorkerIsRunning(s) ==
    [s EXCEPT !.calls = Append(@, "isRunning")]

WorkerPendingBlock(s) ==
    [s EXCEPT !.calls = Append(@, "pendingBlock")]

\* ---- the cases of the select in Miner.update
\* case downloader.StartEvent
OnSyncStart_StopIfMining(s) ==
    LET wasMining == s.running
        s1 == WorkerIsRunning(s)
        s2 == IF wasMining THEN WorkerStop(s1) ELSE s1
    IN  [s2 EXCEPT !.canStart = FALSE,
                   !.shouldStart = IF wasMining THEN TRUE ELSE @]

OnSyncStart(s) ==
    LET wasMining == s.running
        s1 == WorkerIsRunning(s)
        s2 == WorkerStop(s1)
    IN  [s2 EXCEPT !.canStart = FALSE,
                   !.shouldStart = IF wasMining THEN TRUE ELSE @]

\* case downloader.FailedEvent
OnSyncFailed_Unsubscribe(s) ==
    LET s1 == [s EXCEPT !.canStart = TRUE]
        s2 == IF s1.shouldStart THEN WorkerStart(s1) ELSE s1
    IN  [s2 EXCEPT !.subscribed = FALSE]

OnSyncFailed_NoRestart(s) ==
    [s EXCEPT !.canStart = TRUE]

OnSyncFailed(s) ==
    LET s1 == [s EXCEPT !.canStart = TRUE]
    IN  IF s1.shouldStart THEN WorkerStart(s1) ELSE s1

\* case downloader.DoneEvent
OnSyncDone_NoUnsubscribe(s) ==
    LET s1 == [s EXCEPT !.canStart = TRUE]
    IN  IF s1.shouldStart THEN WorkerStart(s1) ELSE s1

OnSyncDone_StartAlways(s) ==
    LET s1 == [s EXCEPT !.canStart = TRUE]
        s2 == WorkerStart(s1)
    IN  [s2 EXCEPT !.subscribed = FALSE]

OnSyncDone(s) ==
    LET s1 == [s EXCEPT !.canStart = TRUE]
        s2 == IF s1.shouldStart THEN WorkerStart(s1) ELSE s1
    IN  [s2 EXCEPT !.subscribed = FALSE]

\* case ev == nil
OnChanClosed(s) ==
    [s EXCEPT !.dlEventCh = "nil"]

\* case <-miner.startCh
OnStart_SkipIfRequested(s) ==
    LET s1 == IF s.canStart /\ ~s.shouldStart THEN WorkerStart(s) ELSE s
    IN  [s1 EXCEPT !.shouldStart = TRUE]

OnStart(s) ==
    LET s1 == IF s.canStart THEN WorkerStart(s) ELSE s
    IN  [s1 EXCEPT !.shouldStart = TRUE]

\* case <-miner.stopCh
OnStop(s) ==
    WorkerStop([s EXCEPT !.shouldStart = FALSE])

\* case <-miner.exitCh, then the deferred Unsubscribe and wg.Done
OnExit_NoClose(s) ==
    [s EXCEPT !.pc = "done", !.subscribed = FALSE]

OnExit(s) ==
    LET s1 == WorkerClose(s)
    IN  [s1 EXCEPT !.pc = "done", !.subscribed = FALSE]

\* ---- log of inputs
Entry(in, consumed, s) ==
    [in |-> in, consumed |-> consumed, ncalls |-> Len(s.calls),
     canStart |-> s.canStart, shouldStart |-> s.shouldStart, running |-> s.running]

\* The step that offers input `in` to the miner and leaves it in state s.
Becomes(in, consumed, s) ==
    /\ Len(log) < MaxLog
    /\ canStart' = s.canStart
    /\ shouldStart' = s.shouldStart
    /\ dlEventCh' = s.dlEventCh
    /\ subscribed' = s.subscribed
    /\ running' = s.running
    /\ workerClosed' = s.workerClosed
    /\ pc' = s.pc
    /\ calls' = s.calls
    /\ log' = Append(log, Entry(in, consumed, s))
    /\ UNCHANGED <<exitClosed, cvars>>

\* ---- actions of the miner
\* mux.Post of a downloader event while the subscription is live: the loop reads it.
RecvSyncStart ==
    /\ pc = "loop" /\ dlEventCh = "chan" /\ subscribed
    /\ Becomes("SyncStart", TRUE, OnSyncStart(MinerState))

RecvSyncFailed ==
    /\ pc = "loop" /\ dlEventCh = "chan" /\ subscribed
    /\ Becomes("SyncFailed", TRUE, OnSyncFailed(MinerState))

RecvSyncDone ==
    /\ pc = "loop" /\ dlEventCh = "chan" /\ subscribed
    /\ Becomes("SyncDone", TRUE, OnSyncDone(MinerState))

\* mux.Post of a downloader event that no subscription receives.
PostDropped ==
    /\ ~subscribed
    /\ \E ev \in SyncEvents : Becomes(ev, FALSE, MinerState)

\* The closed subscription channel yields nil.
RecvNil ==
    /\ pc = "loop" /\ dlEventCh = "chan" /\ ~subscribed
    /\ Becomes("nil", TRUE, OnChanClosed(MinerState))

\* Miner.Start() whose send on startCh the loop receives.
RecvStart ==
    /\ pc = "loop"
    /\ Becomes("Start", TRUE, OnStart(MinerState))

\* Miner.Stop() whose send on stopCh the loop receives.
RecvStop ==
    /\ pc = "loop"
    /\ Becomes("Stop", TRUE, OnStop(MinerState))

\* Miner.Start() / Miner.Stop() after the loop returned: the send blocks for ever.
SendBlocked ==
    /\ pc = "done"
    /\ \E in \in {"Start", "Stop"} : Becomes(in, FALSE, MinerState)

\* Miner.Close(): close(miner.exitCh) ...
CloseCall ==
    /\ ~exitClosed
    /\ exitClosed' = TRUE
    /\ UNCHANGED <<canStart, shouldStart, dlEventCh, subscribed, running,
                   workerClosed, pc, calls, log, cvars>>

\* ... the loop's exit case ...
RecvExit ==
    /\ pc = "loop" /\ exitClosed
    /\ Becomes("exit", TRUE, OnExit(MinerState))

\* ... and miner.wg.Wait() returning.
CloseReturn ==
    /\ exitClosed /\ pc = "done"
    /\ \A i \in 1..Len(log) : log[i].in # "CloseReturn"
    /\ Becomes("CloseReturn", FALSE, MinerState)

\* Miner.Mining() called from outside the loop.
MiningCall ==
    Becomes("Mining", FALSE, WorkerIsRunning(MinerState))

\* Miner.PendingBlock(), one of the methods that forward to the worker.
PendingBlockCall ==
    Becomes("PendingBlock", FALSE, WorkerPendingBlock(MinerState))

MinerInit ==
    /\ canStart = TRUE
    /\ shouldStart = FALSE
    /\ dlEventCh = "chan"
    /\ subscribed = TRUE
    /\ running = FALSE
    /\ workerClosed = FALSE
    /\ pc = "loop"
    /\ exitClosed = FALSE
    /\ calls = <<>>
    /\ log = <<>>

MinerNext ==
    \/ RecvSyncStart
    \/ RecvSyncFailed
    \/ RecvSyncDone
    \/ PostDropped
    \/ RecvNil
    \/ RecvStart
    \/ RecvStop
    \/ SendBlocked
    \/ CloseCall
    \/ RecvExit
    \/ CloseReturn
    \/ MiningCall
    \/ PendingBlockCall


(***************************************************************************)
(* Consensus: the proposer role of propose.go over the core's state.       *)
(***************************************************************************)
\* Heights run from 1 to MaxHeight, rounds from 0 to MaxRound.
MaxHeight == 2
MaxRound == 1
\* Total voting power of the committee.
TotalPower == 3
\* Consensus events explored in one behaviour.
MaxEvents == 4
\* Consensus events explored in one behaviour that begins at a round start.
MaxRoundEvents == 3

None == "none"
Hashes == {"A", "B"}
Heights == 1..MaxHeight
Rounds == 0..MaxRound
\* The committee in proposer rotation order; this node is Self.
Committee == <<"v1", "v0">>
Self == "v0"
Validators == {Committee[i] : i \in 1..Len(Committee)}

\* A Propose message as HandleProposal sees it, with what backend.VerifyProposal
\* will answer for its block.
ProposalMsgs ==
    [r : Rounds, h : Heights, vr : -1..MaxRound, hash : Hashes, sender : Validators,
     verify : {"ok", "future", "invalid"}]

\* A candidate block handed over by the worker; NilBlock is the nil pointer.
Blocks == [number : Heights, hash : Hashes]
NilBlock == [number |-> 0, hash |-> None]

\* c.futureProposalTimer before any timer was created.
NoTimer == [set |-> FALSE, armed |-> FALSE, hash |-> None, r |-> -1]

EmptyRound ==
    [proposal |-> None, verified |-> FALSE,
     prevotes |-> [x \in Hashes |-> 0], precommits |-> [x \in Hashes |-> 0]]

Eff(e, a, n) == [e |-> e, a |-> a, n |-> n]

NoOut(op) ==
    [op |-> op, result |-> "nil", effects |-> <<>>, path |-> None, rule |-> None,
     commitPower |-> -1]

CoreState ==
    [height |-> height, round |-> round, step |-> step, sentProposal |-> sentProposal,
     validRound |-> validRound, lockedRound |-> lockedRound, lockedValue |-> lockedValue,
     messages |-> messages, pendingCandidateBlocks |-> pendingCandidateBlocks,
     proposeTimeout |-> proposeTimeout, futureProposalTimer |-> futureProposalTimer,
     broadcasts |-> broadcasts, out |-> out]

\* ---- helpers of the core (core.go, committee, round_messages.go, timeout.go)
\* CommitteeSet().Quorum(): ceil(2 * TotalPower / 3) + 1.
Quorum == ((2 * TotalPower + 2) \div 3) + 1

\* CommitteeSet().GetProposer(round) at a height: round robin over the committee.
GetProposer(h, r) == Committee[((h + r) % Len(Committee)) + 1]

IsProposer(c) == GetProposer(c.height, c.round) = Self

IsFromProposer(c, r, sender) == GetProposer(c.height, r) = sender

\* checkMessageStep(round, height, Propose): nil when the message is for the
\* current height and round.
CheckMessageStep(c, r, h) ==
    IF h > c.height THEN "ErrFutureHeightMessage"
    ELSE IF h < c.height THEN "ErrOldHeightMessage"
    ELSE IF r > c.round THEN "ErrFutureRoundMessage"
    ELSE IF r < c.round THEN "ErrOldRoundMessage"
    ELSE "nil"

Did(c, e, a, n) == [c EXCEPT !.out.effects = Append(@, Eff(e, a, n))]

Return(c, res) == [c EXCEPT !.out.result = res]

PrecommitsPower(c, r, hash) == c.messages[r].precommits[hash]

PrevotesPower(c, r, hash) == c.messages[r].prevotes[hash]

\* RoundMessages.SetProposal: keeps the first proposal of the round; a later
\* distinct one is not stored and is reported.
SetProposal(c, r, p, verified) ==
    LET cur == c.messages[r].proposal
    IN  IF cur = None
        THEN Did([c EXCEPT !.messages[r].proposal = p.hash,
                           !.messages[r].verified = verified],
                 "SetProposal", p.hash, r)
        ELSE IF cur # p.hash
        THEN Did(c, "Report", p.hash, r)
        ELSE c

\* SetStep(step)
SetStep(c, s) == Did([c EXCEPT !.step = s], "SetStep", s, c.round)

\* prevoter.SendPrevote(ctx, isNil) for the current round's proposal.
SendPrevote(c, isNil, hash) ==
    Did(c, "SendPrevote", IF isNil THEN "nil" ELSE hash, c.round)

\* StartRound(r) at the current height: the round change.
StartRound(c, r) ==
    [c EXCEPT !.round = r, !.step = "Propose", !.sentProposal = FALSE,
              !.proposeTimeout = "running", !.broadcasts = 0]

\* Commit(round, roundMessages): finalizes the block of the proposal stored in
\* roundMessages and moves to round 0 of the next height.
Commit(c, r) ==
    LET stored == c.messages[r].proposal
        c1 == Did(c, "Commit", stored, r)
        c2 == [c1 EXCEPT !.out.commitPower =
                            IF stored = None THEN 0 ELSE PrecommitsPower(c, r, stored)]
        c3 == [c2 EXCEPT !.height = c.height + 1,
                         !.messages = [x \in Rounds |-> EmptyRound],
                         !.validRound = -1, !.lockedRound = -1, !.lockedValue = None]
    IN  StartRound(c3, 0)

\* proposeTimeout.StopTimer(): stops a running timer, does nothing to a stopped
\* one, and fails on a timer that has already expired.
StopTimerOK(c) == c.proposeTimeout # "expired"

StopTimer(c) ==
    Did([c EXCEPT !.proposeTimeout = "stopped"], "StopTimer", c.proposeTimeout, c.round)

\* ---- Proposer.StopFutureProposalTimer
StopFutureProposalTimer(c) ==
    IF c.futureProposalTimer.set
    THEN Did([c EXCEPT !.futureProposalTimer.armed = FALSE], "StopFutureTimer", "", c.round)
    ELSE c

\* ---- Proposer.SendProposal
SendProposal_NoSentCheck(c, block) ==
    IF c.height = block.number /\ IsProposer(c)
    THEN Did([c EXCEPT !.sentProposal = TRUE, !.broadcasts = @ + 1],
             "Broadcast", block.hash, c.round)
    ELSE c

SendProposal(c, block) ==
    IF c.height = block.number /\ IsProposer(c) /\ ~c.sentProposal
    THEN Did([c EXCEPT !.sentProposal = TRUE, !.broadcasts = @ + 1],
             "Broadcast", block.hash, c.round)
    ELSE c

\* ---- Proposer.HandleProposal
\* the branch taken for errors.Is(err, constants.ErrOldRoundMessage)
HandleOldRound_NoStoredCheck(c, p, err) ==
    IF ~IsFromProposer(c, p.r, p.sender)
    THEN Return(c, "ErrNotFromProposer")
    ELSE LET c1 == SetProposal(c, p.r, p, FALSE)
         IN  IF PrecommitsPower(c1, p.r, p.hash) >= Quorum
             THEN IF p.verify # "ok"
                  THEN Return(Did(c1, "VerifyProposal", p.verify, p.r), p.verify)
                  ELSE Return(Commit(Did(c1, "VerifyProposal", p.verify, p.r), p.r), "nil")
             ELSE Return(c1, err)

HandleOldRound_QuorumOffByOne(c, p, err) ==
    IF c.messages[p.r].proposal # None
    THEN Return(c, err)
    ELSE IF ~IsFromProposer(c, p.r, p.sender)
    THEN Return(c, "ErrNotFromProposer")
    ELSE LET c1 == SetProposal(c, p.r, p, FALSE)
         IN  IF PrecommitsPower(c1, p.r, p.hash) > Quorum
             THEN IF p.verify # "ok"
                  THEN Return(Did(c1, "VerifyProposal", p.verify, p.r), p.verify)
                  ELSE Return(Commit(Did(c1, "VerifyProposal", p.verify, p.r), p.r), "nil")
             ELSE Return(c1, err)

HandleOldRound(c, p, err) ==
    IF c.messages[p.r].proposal # None
    THEN Return(c, err)
    ELSE IF ~IsFromProposer(c, p.r, p.sender)
    THEN Return(c, "ErrNotFromProposer")
    ELSE LET c1 == SetProposal(c, p.r, p, FALSE)
         IN  IF PrecommitsPower(c1, p.r, p.hash) >= Quorum
             THEN IF p.verify # "ok"
                  THEN Return(Did(c1, "VerifyProposal", p.verify, p.r), p.verify)
                  ELSE Return(Commit(Did(c1, "VerifyProposal", p.verify, p.r), p.r), "nil")
             ELSE Return(c1, err)

\* the branch taken when VerifyProposal returned an error
HandleVerifyFailure_StepFirst(c, p) ==
    IF ~StopTimerOK(c)
    THEN Return(c, "ErrStopTimer")
    ELSE LET c1 == StopTimer(c)
         IN  IF p.verify = "future"
             THEN LET c2 == StopFutureProposalTimer(c1)
                      c3 == Did([c2 EXCEPT !.futureProposalTimer =
                                              [set |-> TRUE, armed |-> TRUE,
                                               hash |-> p.hash, r |-> p.r]],
                                "ArmFutureTimer", p.hash, p.r)
                  IN  Return(c3, "future")
             ELSE Return(SendPrevote(SetStep(c1, "Prevote"), TRUE, p.hash), "invalid")

HandleVerifyFailure_KeepOldTimer(c, p) ==
    IF ~StopTimerOK(c)
    THEN Return(c, "ErrStopTimer")
    ELSE LET c1 == StopTimer(c)
         IN  IF p.verify = "future"
             THEN LET c3 == Did([c1 EXCEPT !.futureProposalTimer =
                                              [set |-> TRUE, armed |-> TRUE,
                                               hash |-> p.hash, r |-> p.r]],
                                "ArmFutureTimer", p.hash, p.r)
                  IN  Return(c3, "future")
             ELSE Return(SetStep(SendPrevote(c1, TRUE, p.hash), "Prevote"), "invalid")

HandleVerifyFailure(c, p) ==
    IF ~StopTimerOK(c)
    THEN Return(c, "ErrStopTimer")
    ELSE LET c1 == StopTimer(c)
         IN  IF p.verify = "future"
             THEN LET c2 == StopFutureProposalTimer(c1)
                      c3 == Did([c2 EXCEPT !.futureProposalTimer =
                                              [set |-> TRUE, armed |-> TRUE,
                                               hash |-> p.hash, r |-> p.r]],
                                "ArmFutureTimer", p.hash, p.r)
                  IN  Return(c3, "future")
             ELSE Return(SetStep(SendPrevote(c1, TRUE, p.hash), "Prevote"), "invalid")

\* lines 127-148: the prevote of line 22 or line 28
HandleStepPropose_IgnoreLock(c, p) ==
    IF ~StopTimerOK(c)
    THEN Return(c, "ErrStopTimer")
    ELSE LET c1 == StopTimer(c)
             vr == p.vr
         IN  IF vr = -1
             THEN Return(SetStep(SendPrevote([c1 EXCEPT !.out.rule = "line22"],
                             FALSE, p.hash),
                         "Prevote"), "nil")
             ELSE IF vr < c1.round /\ PrevotesPower(c1, vr, p.hash) >= Quorum
             THEN Return(SetStep(SendPrevote([c1 EXCEPT !.out.rule = "line28"],
                             ~(c1.lockedRound <= vr \/ p.hash = c1.lockedValue), p.hash),
                         "Prevote"), "nil")
             ELSE Return(c1, "nil")

HandleStepPropose_NoRoundCheck(c, p) ==
    IF ~StopTimerOK(c)
    THEN Return(c, "ErrStopTimer")
    ELSE LET c1 == StopTimer(c)
             vr == p.vr
         IN  IF vr = -1
             THEN Return(SetStep(SendPrevote([c1 EXCEPT !.out.rule = "line22"],
                             ~(c1.lockedRound = -1 \/ p.hash = c1.lockedValue), p.hash),
                         "Prevote"), "nil")
             ELSE IF PrevotesPower(c1, vr, p.hash) >= Quorum
             THEN Return(SetStep(SendPrevote([c1 EXCEPT !.out.rule = "line28"],
                             ~(c1.lockedRound <= vr \/ p.hash = c1.lockedValue), p.hash),
                         "Prevote"), "nil")
             ELSE Return(c1, "nil")

HandleStepPropose_StopTimerLast(c, p) ==
    IF ~StopTimerOK(c)
    THEN Return(c, "ErrStopTimer")
    ELSE LET vr == p.vr
         IN  IF vr = -1
             THEN Return(StopTimer(SetStep(SendPrevote([c EXCEPT !.out.rule = "line22"],
                             ~(c.lockedRound = -1 \/ p.hash = c.lockedValue), p.hash),
                         "Prevote")), "nil")
             ELSE IF vr < c.round /\ PrevotesPower(c, vr, p.hash) >= Quorum
             THEN Return(StopTimer(SetStep(SendPrevote([c EXCEPT !.out.rule = "line28"],
                             ~(c.lockedRound <= vr \/ p.hash = c.lockedValue), p.hash),
                         "Prevote")), "nil")
             ELSE Return(StopTimer(c), "nil")

HandleStepPropose(c, p) ==
    IF ~StopTimerOK(c)
    THEN Return(c, "ErrStopTimer")
    ELSE LET c1 == StopTimer(c)
             vr == p.vr
         IN  IF vr = -1
             THEN Return(SetStep(SendPrevote([c1 EXCEPT !.out.rule = "line22"],
                             ~(c1.lockedRound = -1 \/ p.hash = c1.lockedValue), p.hash),
                         "Prevote"), "nil")
             ELSE IF vr < c1.round /\ PrevotesPower(c1, vr, p.hash) >= Quorum
             THEN Return(SetStep(SendPrevote([c1 EXCEPT !.out.rule = "line28"],
                             ~(c1.lockedRound <= vr \/ p.hash = c1.lockedValue), p.hash),
                         "Prevote"), "nil")
             ELSE Return(c1, "nil")

\* lines 69-150: a proposal for the current round
HandleCurrentRound_NoSenderCheck(c, p) ==
    LET c1 == Did(c, "VerifyProposal", p.verify, p.r)
    IN  IF p.verify # "ok"
        THEN HandleVerifyFailure(c1, p)
        ELSE LET c2 == SetProposal(c1, c1.round, p, TRUE)
             IN  IF PrecommitsPower(c2, c2.round, p.hash) >= Quorum
                 THEN Return(Commit(c2, p.r), "nil")
                 ELSE IF c2.step = "Propose"
                 THEN HandleStepPropose(c2, p)
                 ELSE Return(c2, "nil")

HandleCurrentRound(c, p) ==
    IF ~IsFromProposer(c, c.round, p.sender)
    THEN Return(c, "ErrNotFromProposer")
    ELSE LET c1 == Did(c, "VerifyProposal", p.verify, p.r)
         IN  IF p.verify # "ok"
             THEN HandleVerifyFailure(c1, p)
             ELSE LET c2 == SetProposal(c1, c1.round, p, TRUE)
                  IN  IF PrecommitsPower(c2, c2.round, p.hash) >= Quorum
                      THEN Return(Commit(c2, p.r), "nil")
                      ELSE IF c2.step = "Propose"
                      THEN HandleStepPropose(c2, p)
                      ELSE Return(c2, "nil")

HandleProposal(c, p) ==
    LET err == CheckMessageStep(c, p.r, p.h)
        c0 == [c EXCEPT !.out = NoOut("HandleProposal")]
    IN  IF err # "nil"
        THEN IF err = "ErrOldRoundMessage"
             THEN HandleOldRound([c0 EXCEPT !.out.path = "old"], p, err)
             ELSE Return([c0 EXCEPT !.out.path = "backlog"], err)
        ELSE HandleCurrentRound([c0 EXCEPT !.out.path = "current"], p)

\* ---- Proposer.HandleNewCandidateBlockMsg
\* lines 173-178: drop the candidates below the current height
ReleaseOld(c) ==
    [c EXCEPT !.pendingCandidateBlocks =
                 [n \in Heights |-> IF n < c.height THEN None ELSE @[n]]]

HandleNewCandidateBlockMsg_NoRelease(c, b) ==
    LET c0 == [c EXCEPT !.out = NoOut("HandleNewCandidateBlockMsg")]
    IN  IF b = NilBlock
        THEN Return(c0, "nilBlock")
        ELSE IF c0.height > b.number
        THEN Return(c0, "oldHeight")
        ELSE LET c1 == Did([c0 EXCEPT !.pendingCandidateBlocks[b.number] = b.hash],
                           "Store", b.hash, b.number)
             IN  IF IsProposer(c1) /\ c1.step = "Propose" /\ ~c1.sentProposal
                       /\ c1.height = b.number
                 THEN SendProposal(c1, b)
                 ELSE c1

HandleNewCandidateBlockMsg(c, b) ==
    LET c0 == [c EXCEPT !.out = NoOut("HandleNewCandidateBlockMsg")]
    IN  IF b = NilBlock
        THEN Return(c0, "nilBlock")
        ELSE IF c0.height > b.number
        THEN Return(c0, "oldHeight")
        ELSE LET c1 == Did([c0 EXCEPT !.pendingCandidateBlocks[b.number] = b.hash],
                           "Store", b.hash, b.number)
                 c2 == IF IsProposer(c1) /\ c1.step = "Propose" /\ ~c1.sentProposal
                          /\ c1.height = b.number
                       THEN SendProposal(c1, b)
                       ELSE c1
             IN  ReleaseOld(c2)

\* ---- the precommiter's side of line 49: precommits of power pw for hash
\* arrive for round r; a quorum for the stored proposal commits it.
AddPrecommit(c, r, hash, pw) ==
    LET c0 == [c EXCEPT !.out = NoOut("AddPrecommit")]
        c1 == [c0 EXCEPT !.messages[r].precommits[hash] = @ + pw]
    IN  IF c1.messages[r].proposal = hash /\ PrecommitsPower(c1, r, hash) >= Quorum
        THEN Commit(c1, r)
        ELSE c1

\* ---- actions of the consensus driver
Handled(cc) ==
    LET c == cc IN
    /\ nev < MaxEvents
    /\ nev' = nev + 1
    /\ height' = c.height
    /\ round' = c.round
    /\ step' = c.step
    /\ sentProposal' = c.sentProposal
    /\ validRound' = c.validRound
    /\ lockedRound' = c.lockedRound
    /\ lockedValue' = c.lockedValue
    /\ messages' = c.messages
    /\ pendingCandidateBlocks' = c.pendingCandidateBlocks
    /\ proposeTimeout' = c.proposeTimeout
    /\ futureProposalTimer' = c.futureProposalTimer
    /\ broadcasts' = c.broadcasts
    /\ out' = c.out
    /\ UNCHANGED mvars

DoSendProposal ==
    \E b \in Blocks :
        Handled(SendProposal([CoreState EXCEPT !.out = NoOut("SendProposal")], b))

Msg(r, h, vr, hash, sender, verify) ==
    [r |-> r, h |-> h, vr |-> vr, hash |-> hash, sender |-> sender, verify |-> verify]

\* HandleProposal on a message for another height or a future round. It reads
\* only the round and the height of such a message, so one message stands for
\* all those of that round and height.
DoHandleProposalBacklog ==
    \E r \in Rounds : \E h \in Heights :
        /\ CheckMessageStep(CoreState, r, h) \notin {"nil", "ErrOldRoundMessage"}
        /\ Handled(HandleProposal(CoreState, Msg(r, h, -1, "A", Self, "ok")))

\* What backend.VerifyProposal can answer for the block of a proposal. The
\* block of a proposal that is not from the round's proposer is never verified,
\* and nothing but its sender is read: one message stands for all of them.
Verdicts(r, sender) ==
    IF sender = GetProposer(height, r) THEN {"ok", "future", "invalid"} ELSE {"ok"}

ValidRounds(r, sender) ==
    IF r = round /\ sender = GetProposer(height, r) THEN -1..MaxRound ELSE {-1}

\* HandleProposal on a message for an older round of the current height. It
\* never reads the valid round of such a message.
DoHandleProposalOldRound ==
    \E r \in 0..(round - 1) : \E hash \in Hashes : \E sender \in Validators :
    \E verify \in Verdicts(r, sender) :
        Handled(HandleProposal(CoreState, Msg(r, height, -1, hash, sender, verify)))

\* HandleProposal on a message for the current round.
DoHandleProposalCurrentRound ==
    \E hash \in Hashes : \E sender \in Validators :
    \E vr \in ValidRounds(round, sender) : \E verify \in Verdicts(round, sender) :
        Handled(HandleProposal(CoreState, Msg(round, height, vr, hash, sender, verify)))

DoHandleNewCandidateBlockMsg ==
    \E b \in Blocks \cup {NilBlock} : Handled(HandleNewCandidateBlockMsg(CoreState, b))

\* A round timeout moves the core to the next round.
DoRoundChange ==
    /\ round < MaxRound
    /\ Handled(StartRound([CoreState EXCEPT !.out = NoOut("StartRound")], round + 1))

\* The propose timeout expires before the proposal handling could stop it.
DoProposeTimeoutExpires ==
    /\ proposeTimeout = "running"
    /\ Handled([CoreState EXCEPT !.proposeTimeout = "expired",
                                 !.out = NoOut("ProposeTimeoutExpires")])

\* Precommits reach the round messages of the current or an older round. The
\* votes arrive in batches that bring a tally to just below the quorum or to it:
\* the proposer only ever compares a tally with the quorum.
DoAddPrecommit ==
    /\ height < MaxHeight
    /\ \E r \in 0..round : \E hash \in Hashes : \E pw \in 1..TotalPower :
        /\ messages[r].precommits["A"] + messages[r].precommits["B"] + pw <= TotalPower
        /\ messages[r].precommits[hash] + pw \in {Quorum - 1, Quorum}
        /\ Handled(AddPrecommit(CoreState, r, hash, pw))

\* Prevotes reach the round messages of the current or an older round, in
\* batches that bring a tally to just below the quorum or to it.
DoAddPrevote ==
    \E r \in 0..round : \E hash \in Hashes : \E pw \in 1..TotalPower :
        /\ messages[r].prevotes["A"] + messages[r].prevotes["B"] + pw <= TotalPower
        /\ messages[r].prevotes[hash] + pw \in {Quorum - 1, Quorum}
        /\ Handled([CoreState EXCEPT !.messages[r].prevotes[hash] = @ + pw,
                                     !.out = NoOut("AddPrevote")])

\* The prevoter's side of line 36: at step Prevote, a quorum of prevotes for the
\* stored proposal locks it and moves the core to Precommit.
DoLockAndPrecommit ==
    /\ step = "Prevote"
    /\ messages[round].proposal # None
    /\ PrevotesPower(CoreState, round, messages[round].proposal) >= Quorum
    /\ Handled([CoreState EXCEPT !.lockedRound = round,
                                 !.lockedValue = messages[round].proposal,
                                 !.validRound = round,
                                 !.step = "Precommit",
                                 !.out = NoOut("Precommit")])

\* The prevote timeout or a quorum of nil prevotes: a nil precommit.
DoPrecommitNil ==
    /\ step = "Prevote"
    /\ Handled([CoreState EXCEPT !.step = "Precommit", !.out = NoOut("PrecommitNil")])

\* The armed futureProposalTimer fires: its function sends the proposal back to
\* the driver as a backlogMessageEvent.
DoFutureProposalTimerFires ==
    /\ futureProposalTimer.armed
    /\ Handled(Did([CoreState EXCEPT !.futureProposalTimer.armed = FALSE,
                                     !.out = NoOut("FutureProposalTimerFires")],
                   "SendEvent", futureProposalTimer.hash, futureProposalTimer.r))

\* A quorum of precommits for one block reaches the current round at once.
DoPrecommitQuorum ==
    /\ height < MaxHeight
    /\ \E hash \in Hashes :
        /\ messages[round].precommits["A"] + messages[round].precommits["B"] = 0
        /\ Handled(AddPrecommit(CoreState, round, hash, Quorum))

CoreInit ==
    /\ height = 1
    /\ round = 0
    /\ step = "Propose"
    /\ sentProposal = FALSE
    /\ validRound = -1
    /\ lockedRound = -1
    /\ lockedValue = None
    /\ messages = [x \in Rounds |-> EmptyRound]
    /\ pendingCandidateBlocks = [n \in Heights |-> None]
    /\ proposeTimeout = "running"
    /\ futureProposalTimer = NoTimer
    /\ broadcasts = 0
    /\ nev = 0
    /\ out = NoOut("none")

CoreNext ==
    \/ DoSendProposal
    \/ DoHandleProposalBacklog
    \/ DoHandleProposalOldRound
    \/ DoHandleProposalCurrentRound
    \/ DoHandleNewCandidateBlockMsg
    \/ DoRoundChange
    \/ DoProposeTimeoutExpires
    \/ DoAddPrecommit

(***************************************************************************)
(* Specifications: the miner supervisor, and the consensus driver.         *)
(***************************************************************************)
Init == MinerInit /\ CoreInit

Next == MinerNext

Spec == Init /\ [][Next]_vars

ProposerNext == CoreNext

ProposerSpec == Init /\ [][ProposerNext]_vars

\* The core at the start of a round of the first height: nothing received in
\* this round yet, and possibly locked on the proposal of an earlier round that
\* gathered a quorum of prevotes.
RoundStartInit ==
    \E r \in Rounds : \E lr \in -1..(r - 1) : \E lv \in Hashes :
        /\ height = 1
        /\ round = r
        /\ step = "Propose"
        /\ sentProposal = FALSE
        /\ validRound = lr
        /\ lockedRound = lr
        /\ lockedValue = IF lr = -1 THEN None ELSE lv
        /\ messages = [x \in Rounds |->
                          IF x = lr
                          THEN [EmptyRound EXCEPT !.proposal = lv, !.verified = TRUE,
                                                  !.prevotes[lv] = Quorum]
                          ELSE EmptyRound]
        /\ pendingCandidateBlocks = [n \in Heights |-> None]
        /\ proposeTimeout = "running"
        /\ futureProposalTimer = NoTimer
        /\ broadcasts = 0
        /\ nev = MaxEvents - MaxRoundEvents
        /\ out = NoOut("none")

VoteInit == MinerInit /\ RoundStartInit

VoteNext ==
    \/ DoHandleProposalCurrentRound
    \/ DoRoundChange
    \/ DoProposeTimeoutExpires
    \/ DoPrecommitQuorum
    \/ DoAddPrevote
    \/ DoLockAndPrecommit
    \/ DoPrecommitNil
    \/ DoFutureProposalTimerFires

VoteSpec == VoteInit /\ [][VoteNext]_vars

(***************************************************************************)
(* Reading the input log.                                                  *)
(***************************************************************************)
\* The miner as the log saw it just before input j.
Pre(j) ==
    IF j = 1
    THEN [ncalls |-> 0, canStart |-> TRUE, shouldStart |-> FALSE, running |-> FALSE]
    ELSE log[j - 1]

\* The worker calls input j caused.
CallsOf(j) == SubSeq(calls, Pre(j).ncalls + 1, log[j].ncalls)

Has(seq, c) == \E k \in 1..Len(seq) : seq[k] = c

Count(seq, c) == Cardinality({k \in 1..Len(seq) : seq[k] = c})

Consumed(j, in) == log[j].in = in /\ log[j].consumed

SyncEnded(j) == Consumed(j, "SyncDone") \/ Consumed(j, "SyncFailed")

\* Input i is a consumed SyncStart and no SyncDone/SyncFailed was consumed
\* strictly between i and j.
SyncOpen(i, j) ==
    /\ i < j
    /\ Consumed(i, "SyncStart")
    /\ \A k \in (i + 1)..(j - 1) : ~SyncEnded(k)

\* Input i is the SyncStart that began the sync period input j falls in.
SyncBegan(i, j) ==
    /\ SyncOpen(i, j)
    /\ \A h \in 1..(i - 1) : ~SyncOpen(h, j)

SameFlags(j) ==
    /\ log[j].canStart = Pre(j).canStart
    /\ log[j].shouldStart = Pre(j).shouldStart
    /\ log[j].running = Pre(j).running

(***************************************************************************)
(* C1. Once the loop has consumed its first SyncDone, no later sync event  *)
(* (SyncStart, SyncFailed, SyncDone) is consumed, causes a worker call or  *)
(* changes canStart/shouldStart, and canStart is true from then on.        *)
(***************************************************************************)
C1_AfterFirstSyncDone ==
    \A i \in 1..Len(log) :
        Consumed(i, "SyncDone") =>
            /\ log[i].canStart
            /\ \A j \in (i + 1)..Len(log) :
                /\ log[j].canStart
                /\ log[j].in \in SyncEvents =>
                    /\ ~log[j].consumed
                    /\ CallsOf(j) = <<>>
                    /\ SameFlags(j)

\* A SyncStart posted after the consumed SyncDone, while the worker mines.
C1_Witness ==
    \E i \in 1..Len(log) : \E j \in (i + 1)..Len(log) :
        /\ Consumed(i, "SyncDone")
        /\ log[j].in = "SyncStart"
        /\ log[j].running

(***************************************************************************)
(* C2. Sync gate: between a consumed SyncStart and the next consumed       *)
(* SyncDone/SyncFailed no input causes worker.start(); the SyncDone or     *)
(* SyncFailed that ends the sync calls worker.start() iff shouldStart,     *)
(* and shouldStart is then true iff the worker was mining when the sync    *)
(* began or Start() was consumed during it, with no Stop() consumed later. *)
(***************************************************************************)
\* What the claim says shouldStart is when input j ends the sync begun at i.
ResumeWanted(i, j) ==
    \/ /\ Pre(i).running
       /\ \A k \in i..(j - 1) : ~Consumed(k, "Stop")
    \/ \E s \in (i + 1)..(j - 1) :
        /\ Consumed(s, "Start")
        /\ \A k \in (s + 1)..(j - 1) : ~Consumed(k, "Stop")

C2_SyncGate ==
    \A j \in 1..Len(log) : \A i \in 1..(j - 1) :
        SyncBegan(i, j) =>
            IF SyncEnded(j)
            THEN /\ Has(CallsOf(j), "start") <=> Pre(j).shouldStart
                 /\ Pre(j).shouldStart <=> ResumeWanted(i, j)
            ELSE ~Has(CallsOf(j), "start")

\* Start() consumed during a sync that began while idle, then the sync ends
\* and the worker is started.
C2_Witness ==
    \E i \in 1..Len(log) : \E s \in (i + 1)..Len(log) : \E j \in (s + 1)..Len(log) :
        /\ SyncBegan(i, j)
        /\ ~Pre(i).running
        /\ Consumed(s, "Start")
        /\ CallsOf(s) = <<>>
        /\ SyncEnded(j)
        /\ CallsOf(j) = <<"start">>

(***************************************************************************)
(* C3. After a SyncStart consumed while the worker is mining, worker.stop()*)
(* is called once by that handler and once more for every further          *)
(* SyncStart or Stop() consumed before the next SyncDone/SyncFailed; it is *)
(* called exactly once only when none is consumed in between.              *)
(***************************************************************************)
\* The worker.stop() calls caused by inputs i..j.
StopsIn(i, j) == Count(SubSeq(calls, Pre(i).ncalls + 1, log[j].ncalls), "stop")

\* The further SyncStart and Stop() inputs consumed in (i, j].
Stoppers(i, j) ==
    Cardinality({k \in (i + 1)..j : Consumed(k, "SyncStart") \/ Consumed(k, "Stop")})

C3_StopPerStopper ==
    \A j \in 1..Len(log) : \A i \in 1..(j - 1) :
        (SyncBegan(i, j) /\ Pre(i).running /\ SyncEnded(j)) =>
            StopsIn(i, j - 1) = 1 + Stoppers(i, j - 1)

\* A sync that began while mining, saw a second SyncStart, and ended.
C3_Witness ==
    \E j \in 1..Len(log) : \E i \in 1..(j - 1) :
        /\ SyncBegan(i, j) /\ Pre(i).running /\ SyncEnded(j)
        /\ \E k \in (i + 1)..(j - 1) : Consumed(k, "SyncStart")
        /\ StopsIn(i, j - 1) = 2

\* The claim as stated: exactly one worker.stop() whatever is interleaved.
C3_Original ==
    \A j \in 1..Len(log) : \A i \in 1..(j - 1) :
        (SyncBegan(i, j) /\ Pre(i).running /\ SyncEnded(j)) =>
            StopsIn(i, j - 1) = 1

(***************************************************************************)
(* C4. Once Miner.Close() has returned, worker.close() has been called     *)
(* exactly once, the worker is not running, and no later Start(), Stop()   *)
(* or sync event causes any worker call; only the forwarding methods       *)
(* (Mining, PendingBlock, ...) still reach the worker, and none of them    *)
(* starts, stops or closes it.                                             *)
(***************************************************************************)
C4_AfterClose ==
    \A i \in 1..Len(log) :
        log[i].in = "CloseReturn" =>
            /\ Count(SubSeq(calls, 1, log[i].ncalls), "close") = 1
            /\ ~log[i].running
            /\ \A j \in (i + 1)..Len(log) :
                /\ ~log[j].running
                /\ \A c \in Lifecycle : ~Has(CallsOf(j), c)
                /\ log[j].in \in SyncEvents \cup {"Start", "Stop"} =>
                    CallsOf(j) = <<>> /\ ~log[j].consumed

\* Start() while mining was on, after Close() returned.
C4_Witness ==
    \E i \in 1..Len(log) : \E j \in (i + 1)..Len(log) :
        /\ log[i].in = "CloseReturn"
        /\ Has(SubSeq(calls, 1, log[i].ncalls), "start")
        /\ log[j].in = "Start"

\* The claim as stated: no worker method at all after Close() returned.
C4_Original ==
    \A i \in 1..Len(log) :
        log[i].in = "CloseReturn" =>
            /\ Count(SubSeq(calls, 1, log[i].ncalls), "close") = 1
            /\ ~log[i].running
            /\ \A j \in (i + 1)..Len(log) : CallsOf(j) = <<>>

(***************************************************************************)
(* C5. From every state of a live loop, Start(); Start() leaves canStart,  *)
(* shouldStart and the worker as one Start() does, and calls               *)
(* worker.start() once per Start() consumed while canStart (so twice, not  *)
(* once); Stop(); Stop() leaves the state of one Stop() and calls          *)
(* worker.stop() twice.                                                    *)
(***************************************************************************)
Flags(s) == <<s.canStart, s.shouldStart, s.running, s.workerClosed, s.subscribed,
              s.dlEventCh, s.pc>>

C5_RepeatedStartStop ==
    pc = "loop" =>
        LET s == MinerState
            s1 == OnStart(s)
            s2 == OnStart(s1)
            t1 == OnStop(s)
            t2 == OnStop(t1)
        IN  /\ Flags(s2) = Flags(s1)
            /\ s2.calls = IF s.canStart THEN Append(s1.calls, "start") ELSE s1.calls
            /\ s.canStart => s1.calls = Append(s.calls, "start")
            /\ Flags(t2) = Flags(t1)
            /\ t2.calls = Append(t1.calls, "stop")
            /\ t1.calls = Append(s.calls, "stop")

\* Two Start() in a row consumed by the loop, each calling worker.start().
C5_Witness ==
    \E j \in 2..Len(log) :
        /\ Consumed(j - 1, "Start") /\ Consumed(j, "Start")
        /\ CallsOf(j - 1) = <<"start">> /\ CallsOf(j) = <<"start">>
        /\ SameFlags(j)

\* The claim as stated: the same sequence of worker calls as a single one.
C5_Original ==
    pc = "loop" =>
        LET s == MinerState
        IN  /\ Flags(OnStart(OnStart(s))) = Flags(OnStart(s))
            /\ OnStart(OnStart(s)).calls = OnStart(s).calls
            /\ Flags(OnStop(OnStop(s))) = Flags(OnStop(s))
            /\ OnStop(OnStop(s)).calls = OnStop(s).calls

(***************************************************************************)
(* Reading the consensus state.                                            *)
(***************************************************************************)
HasEff(o, e) == \E i \in 1..Len(o.effects) : o.effects[i].e = e

Committed(o) == HasEff(o, "Commit")

\* The core as a handler finds it: the current state, with a fresh out.
Fresh(op) == [CoreState EXCEPT !.out = NoOut(op)]

\* The messages the legitimate proposer of an older round R' of this height
\* can send, with a block that passes VerifyProposal.
LateProposals ==
    {Msg(r, height, -1, hash, GetProposer(height, r), "ok") :
        r \in 0..(round - 1), hash \in Hashes}

\* The proposals for a round of this height that already stores another one.
SecondProposals ==
    UNION {{Msg(r, height, vr, hash, sender, verify) :
                vr \in (IF r < round THEN {-1} ELSE -1..MaxRound),
                hash \in Hashes \ {messages[r].proposal},
                sender \in Validators,
                verify \in {"ok", "future", "invalid"}} :
           r \in {q \in 0..round : messages[q].proposal # None}}

(***************************************************************************)
(* C6. sentProposal is true exactly when one proposal was broadcast since  *)
(* the last round change: SendProposal broadcasts only when the block is   *)
(* for the current height, this node is the proposer and sentProposal is   *)
(* false, sets sentProposal in the same step, and does nothing otherwise.  *)
(***************************************************************************)
C6_OneBroadcastPerRound ==
    /\ sentProposal => broadcasts = 1
    /\ ~sentProposal => broadcasts = 0
    /\ \A b \in Blocks :
        LET c == Fresh("SendProposal")
            d == SendProposal(c, b)
        IN  IF height = b.number /\ IsProposer(c) /\ ~sentProposal
            THEN /\ d.sentProposal /\ d.broadcasts = 1
                 /\ d.out.effects = <<Eff("Broadcast", b.hash, round)>>
            ELSE d = c

\* SendProposal called again by the proposer after its proposal went out.
C6_Witness ==
    /\ sentProposal /\ broadcasts = 1
    /\ IsProposer(CoreState)
    /\ out.op = "SendProposal" /\ out.effects = <<>>
    /\ pendingCandidateBlocks[height] # None

(***************************************************************************)
(* C7. HandleProposal calls Commit(R, ...) only when the proposal stored   *)
(* in the round messages of R has a quorum of precommits for its hash.     *)
(***************************************************************************)
C7_CommitOnlyWithQuorum ==
    (out.op = "HandleProposal" /\ Committed(out)) => out.commitPower >= Quorum

(***************************************************************************)
(* C8. A round of the current height that stores a proposal keeps it: a    *)
(* second, distinct proposal for that round never replaces it and is       *)
(* reported or refused with an error; for an old round HandleProposal      *)
(* returns the step-mismatch error and changes nothing.                    *)
(***************************************************************************)
C8_FirstProposalKept ==
    \A p \in SecondProposals :
        LET c == Fresh("HandleProposal")
            d == HandleProposal(CoreState, p)
        IN  /\ d.height = height => d.messages[p.r].proposal = messages[p.r].proposal
            /\ HasEff(d.out, "Report") \/ d.out.result # "nil"
            /\ ~HasEff(d.out, "SetProposal")
            /\ p.r < round =>
                /\ d.out.result = "ErrOldRoundMessage"
                /\ d = [c EXCEPT !.out.path = "old", !.out.result = "ErrOldRoundMessage"]
            /\ (p.r = round /\ p.sender = GetProposer(height, round) /\ p.verify = "ok") =>
                HasEff(d.out, "Report")

\* A second proposal was handled in a round that had stored one, and reported.
C8_Witness ==
    /\ out.op = "HandleProposal" /\ out.path = "current"
    /\ HasEff(out, "Report")
    /\ ~Committed(out)
    /\ messages[round].proposal # None

(***************************************************************************)
(* C9. After each HandleNewCandidateBlockMsg that stores its candidate (a  *)
(* non-nil block whose number is not below the current height), no entry   *)
(* of pendingCandidateBlocks is below the current height. The other        *)
(* proposer events, among them a HandleProposal that commits and advances  *)
(* the height, leave stale entries in place.                               *)
(***************************************************************************)
NoStaleCandidate ==
    \A n \in Heights : n < height => pendingCandidateBlocks[n] = None

C9_ReleasedOnStore ==
    (out.op = "HandleNewCandidateBlockMsg" /\ HasEff(out, "Store")) => NoStaleCandidate

\* A candidate stored at the height reached by a commit.
C9_Witness ==
    /\ out.op = "HandleNewCandidateBlockMsg" /\ HasEff(out, "Store")
    /\ height > 1
    /\ pendingCandidateBlocks[height] # None
    /\ NoStaleCandidate

\* The claim as stated: after every event the proposer role handles.
C9_Original ==
    out.op \in {"HandleNewCandidateBlockMsg", "SendProposal", "HandleProposal"} =>
        NoStaleCandidate

(***************************************************************************)
(* C10. Late commit: for a proposal of an older round R' of the current    *)
(* height from the proposer of R', with a block that verifies,             *)
(* HandleProposal calls Commit(R', ...) and returns nil when the round     *)
(* messages of R' hold no proposal yet and at least a quorum of precommits *)
(* for the block; it returns the step-mismatch error without committing    *)
(* when the precommits are below the quorum or a proposal is stored.       *)
(***************************************************************************)
C10_LateCommit ==
    \A p \in LateProposals :
        LET d == HandleProposal(CoreState, p)
        IN  IF /\ messages[p.r].proposal = None
               /\ PrecommitsPower(CoreState, p.r, p.hash) >= Quorum
            THEN /\ Committed(d.out) /\ d.out.result = "nil"
                 /\ d.out.commitPower >= Quorum
                 /\ d.height = height + 1
            ELSE /\ ~Committed(d.out) /\ d.out.result = "ErrOldRoundMessage"
                 /\ d.height = height

\* A late commit took place.
C10_Witness ==
    /\ out.op = "HandleProposal" /\ out.path = "old"
    /\ Committed(out) /\ out.result = "nil"
    /\ out.commitPower = Quorum
    /\ height = 2

\* The claim as stated: the quorum alone decides.
C10_Original ==
    \A p \in LateProposals :
        LET d == HandleProposal(CoreState, p)
        IN  IF PrecommitsPower(CoreState, p.r, p.hash) >= Quorum
            THEN Committed(d.out) /\ d.out.result = "nil"
            ELSE ~Committed(d.out) /\ d.out.result = "ErrOldRoundMessage"

(***************************************************************************)
(* C11. Once the loop has consumed a Done event the sync subscription is   *)
(* unregistered, and no later StartEvent stops the worker or clears        *)
(* canStart. A Failed event restores canStart and restarts the worker if   *)
(* wanted but leaves the subscription in place: a StartEvent after it is   *)
(* consumed, stops the worker and clears canStart.                         *)
(***************************************************************************)
DoneConsumed(i, j) == \E k \in i..j : Consumed(k, "SyncDone")

C18_RunningIffBothFlags ==
    /\ pc = "loop" => (running <=> (canStart /\ shouldStart))
    /\ \A j \in 1..Len(log) :
        (log[j].consumed /\ log[j].in # "exit") =>
            (log[j].running <=> (log[j].canStart /\ log[j].shouldStart))

\* Start() during a sync: wanted but held back; then the sync fails and the
\* worker runs.
C18_Witness ==
    \E s \in 1..Len(log) : \E j \in (s + 1)..Len(log) :
        /\ Consumed(s, "Start") /\ ~log[s].canStart /\ log[s].shouldStart
        /\ ~log[s].running
        /\ Consumed(j, "SyncFailed") /\ log[j].running
        /\ pc = "loop"

(***************************************************************************)
(* Reading what HandleProposal did.                                        *)
(***************************************************************************)
CountEff(o, e) == Cardinality({i \in 1..Len(o.effects) : o.effects[i].e = e})

Prevoted(o, a) ==
    \E i \in 1..Len(o.effects) : o.effects[i].e = "SendPrevote" /\ o.effects[i].a = a

\* The proposals for the current round from its proposer, by what
\* VerifyProposal answers for their block.
CurrentProposals(verify) ==
    {Msg(round, height, vr, hash, GetProposer(height, round), verify) :
        vr \in -1..MaxRound, hash \in Hashes}

(***************************************************************************)
(* C12. A current-round proposal from the proposer whose block fails       *)
(* VerifyProposal with an error other than FutureTimestampBlock: if        *)
(* proposeTimeout can be stopped, HandleProposal stops it, sends exactly   *)
(* one prevote, for nil, then sets the step to Prevote, stores nothing and *)
(* returns the verification error; if stopping the timer fails, it returns *)
(* the timer's error and does nothing else.                                *)
(***************************************************************************)
C12_NilPrevoteOnInvalid ==
    \A p \in CurrentProposals("invalid") :
        LET d == HandleProposal(CoreState, p)
        IN  IF StopTimerOK(CoreState)
            THEN /\ d.out.effects = <<Eff("VerifyProposal", "invalid", round),
                                      Eff("StopTimer", proposeTimeout, round),
                                      Eff("SendPrevote", "nil", round),
                                      Eff("SetStep", "Prevote", round)>>
                 /\ d.step = "Prevote"
                 /\ d.proposeTimeout = "stopped"
                 /\ d.messages = messages
                 /\ d.out.result = "invalid"
            ELSE /\ d.out.result = "ErrStopTimer"
                 /\ d.out.effects = <<Eff("VerifyProposal", "invalid", round)>>
                 /\ d.step = step
                 /\ d.messages = messages

\* An invalid proposal was answered with a nil prevote.
C12_Witness ==
    /\ out.op = "HandleProposal" /\ out.result = "invalid"
    /\ Prevoted(out, "nil")
    /\ step = "Prevote"
    /\ messages[round].proposal = None

\* The claim as stated: the nil prevote whatever the state of the timer.
C12_Original ==
    \A p \in CurrentProposals("invalid") :
        LET d == HandleProposal(CoreState, p)
        IN  /\ CountEff(d.out, "SendPrevote") = 1 /\ Prevoted(d.out, "nil")
            /\ d.step = "Prevote"
            /\ d.messages = messages
            /\ d.out.result = "invalid"

(***************************************************************************)
(* C13. A current-round proposal whose block VerifyProposal finds to be    *)
(* from the future: if proposeTimeout can be stopped, HandleProposal sends *)
(* no prevote, leaves the step and the round messages unchanged, stops the *)
(* futureProposalTimer set before, if any, and arms a new one; when the    *)
(* armed timer fires, the proposal it was armed with is sent back to the   *)
(* driver. A stopped or replaced timer sends nothing. If stopping          *)
(* proposeTimeout fails, no timer is armed.                                *)
(***************************************************************************)
C13_FutureDeferral ==
    /\ \A p \in CurrentProposals("future") :
        LET d == HandleProposal(CoreState, p)
        IN  IF StopTimerOK(CoreState)
            THEN /\ d.out.effects =
                        <<Eff("VerifyProposal", "future", round),
                          Eff("StopTimer", proposeTimeout, round)>>
                        \o (IF futureProposalTimer.set
                            THEN <<Eff("StopFutureTimer", "", round)>> ELSE <<>>)
                        \o <<Eff("ArmFutureTimer", p.hash, p.r)>>
                 /\ d.step = step
                 /\ d.messages = messages
                 /\ d.futureProposalTimer =
                        [set |-> TRUE, armed |-> TRUE, hash |-> p.hash, r |-> p.r]
                 /\ d.out.result = "future"
            ELSE /\ d.out.result = "ErrStopTimer"
                 /\ d.futureProposalTimer = futureProposalTimer
                 /\ d.step = step
                 /\ d.messages = messages
    /\ out.op = "FutureProposalTimerFires" =>
        /\ ~futureProposalTimer.armed
        /\ out.effects =
            <<Eff("SendEvent", futureProposalTimer.hash, futureProposalTimer.r)>>
    /\ futureProposalTimer.armed => futureProposalTimer.set

\* The timer armed for a future proposal fired while the step was still Propose.
C13_Witness ==
    /\ out.op = "FutureProposalTimerFires"
    /\ HasEff(out, "SendEvent")
    /\ step = "Propose"
    /\ proposeTimeout = "stopped"

\* The claim as stated: the timer is armed whatever the state of proposeTimeout.
C13_Original ==
    \A p \in CurrentProposals("future") :
        LET d == HandleProposal(CoreState, p)
        IN  /\ ~HasEff(d.out, "SendPrevote")
            /\ d.step = step
            /\ d.messages = messages
            /\ d.futureProposalTimer.armed
            /\ d.futureProposalTimer.hash = p.hash

(***************************************************************************)
(* C14. Line 22: a verified current-round proposal with validRound -1,     *)
(* handled at step Propose and without a quorum of precommits for its      *)
(* hash. If proposeTimeout can be stopped, HandleProposal sends one        *)
(* prevote, for the hash iff lockedRound = -1 or the hash is that of       *)
(* lockedValue, for nil otherwise, and sets the step to Prevote; if        *)
(* stopping the timer fails, it sends no prevote and the step stays        *)
(* Propose.                                                                *)
(***************************************************************************)
Line22Proposals ==
    {p \in CurrentProposals("ok") :
        /\ p.vr = -1
        /\ PrecommitsPower(CoreState, round, p.hash) < Quorum}

C14_Line22 ==
    step = "Propose" =>
        \A p \in Line22Proposals :
            LET d == HandleProposal(CoreState, p)
                want == IF lockedRound = -1 \/ p.hash = lockedValue
                        THEN p.hash ELSE "nil"
            IN  IF StopTimerOK(CoreState)
                THEN /\ CountEff(d.out, "SendPrevote") = 1
                     /\ Prevoted(d.out, want)
                     /\ d.step = "Prevote"
                     /\ d.out.rule = "line22"
                     /\ d.out.result = "nil"
                ELSE /\ ~HasEff(d.out, "SendPrevote")
                     /\ d.step = "Propose"
                     /\ d.out.result = "ErrStopTimer"

\* Locked on a block, the core answered a fresh proposal of another block
\* with a nil prevote.
C14_Witness ==
    /\ out.op = "HandleProposal" /\ out.rule = "line22"
    /\ Prevoted(out, "nil")
    /\ lockedRound >= 0
    /\ messages[round].proposal # lockedValue
    /\ step = "Prevote"

\* The claim as stated: a prevote whatever the state of the timer.
C14_Original ==
    step = "Propose" =>
        \A p \in Line22Proposals :
            LET d == HandleProposal(CoreState, p)
                want == IF lockedRound = -1 \/ p.hash = lockedValue
                        THEN p.hash ELSE "nil"
            IN  /\ Prevoted(d.out, want)
                /\ d.step = "Prevote"

(***************************************************************************)
(* C15. Line 28: a verified current-round proposal with validRound vr >= 0 *)
(* handled at step Propose. HandleProposal prevotes and moves to Prevote   *)
(* only if vr < R and the prevotes for the hash at round vr reach the      *)
(* quorum, and then prevotes for the hash iff lockedRound <= vr or the     *)
(* hash is that of lockedValue, for nil otherwise; if vr >= R or the       *)
(* prevotes at vr are below the quorum, no prevote is sent and the step    *)
(* stays Propose.                                                          *)
(***************************************************************************)
Line28Fires(p) ==
    p.vr < round /\ PrevotesPower(CoreState, p.vr, p.hash) >= Quorum

C16_StoppedBeforePrevote ==
    out.op = "HandleProposal" =>
        /\ \A i \in 1..Len(out.effects) :
            out.effects[i].e \in {"SendPrevote", "SetStep"} =>
                \E j \in 1..(i - 1) : out.effects[j].e = "StopTimer"
        /\ HasEff(out, "SetStep") => (step = "Prevote" /\ proposeTimeout = "stopped")
        /\ Committed(out) => ~HasEff(out, "StopTimer")

\* A running proposeTimeout was stopped by a proposal that was then prevoted.
C16_Witness ==
    /\ out.op = "HandleProposal"
    /\ \E i \in 1..Len(out.effects) :
        out.effects[i].e = "StopTimer" /\ out.effects[i].a = "running"
    /\ HasEff(out, "SendPrevote") /\ HasEff(out, "SetStep")
    /\ proposeTimeout = "stopped"

\* The claim as stated: no step of HandleProposal leaves Propose, by a prevote
\* or by a commit, without a StopTimer.
C16_Original ==
    [][(/\ out'.op = "HandleProposal"
        /\ step = "Propose"
        /\ Committed(out') \/ HasEff(out', "SetStep")) =>
            HasEff(out', "StopTimer")]_vars

(***************************************************************************)
(* C17. A proposal for the current round or an older round of the current  *)
(* height whose sender is not the proposer of that round changes nothing:  *)
(* it is not stored, not verified, causes no prevote, step change, timer   *)
(* stop or Commit. HandleProposal returns NotFromProposer, or the          *)
(* step-mismatch error when the old round already holds a proposal.        *)
(***************************************************************************)
ForeignProposals ==
    UNION {{Msg(r, height, vr, hash, sender, verify) :
                vr \in (IF r < round THEN {-1} ELSE -1..MaxRound),
                hash \in Hashes,
                sender \in Validators \ {GetProposer(height, r)},
                verify \in {"ok", "future", "invalid"}} :
           r \in 0..round}

C17_NonProposerFrame ==
    \A p \in ForeignProposals :
        LET c == Fresh("HandleProposal")
            d == HandleProposal(CoreState, p)
        IN  d = [c EXCEPT !.out.path = IF p.r < round THEN "old" ELSE "current",
                          !.out.result =
                              IF p.r < round /\ messages[p.r].proposal # None
                              THEN "ErrOldRoundMessage"
                              ELSE "ErrNotFromProposer"]

\* A proposal for an older round from a validator that was not its proposer.
C17_Witness ==
    /\ out.op = "HandleProposal" /\ out.path = "old"
    /\ out.result = "ErrNotFromProposer"
    /\ out.effects = <<>>
    /\ round > 0

(***************************************************************************)
(* C19. HandleProposal sends a prevote and sets the step to Prevote only   *)
(* if the step was Propose when it was called, and never moves the step    *)
(* back from Precommit to Prevote.                                         *)
(***************************************************************************)
C19_PrevoteOnlyFromPropose ==
    [][out'.op = "HandleProposal" =>
        /\ (HasEff(out', "SendPrevote") \/ HasEff(out', "SetStep")) => step = "Propose"
        /\ (step = "Precommit" /\ height' = height) => step' # "Prevote"]_vars

(***************************************************************************)
(* C20. Whenever HandleProposal returns with the step still Propose,       *)
(* proposeTimeout is running (or has fired) or futureProposalTimer is      *)
(* armed: a timer remains that will move the core out of Propose.          *)
(***************************************************************************)
C20_TimerGuard ==
    (out.op = "HandleProposal" /\ out.path = "current" /\ step = "Propose") =>
        \/ proposeTimeout \in {"running", "expired"}
        \/ futureProposalTimer.armed

====
